---- MODULE Spec2Model ----
(***************************************************************************)
(* Model of src/main.py: the S3 "mirror, archive, upload, tag, publish log, *)
(* clean up" run.                                                           *)
(*                                                                          *)
(* Strings (object keys, ignore patterns, paths) are sequences of chunks;   *)
(* the chunk "/" is the path separator.  The local filesystem is a record   *)
(* [files, dirs] of resolved paths, a resolved path being the sequence of   *)
(* its component names.  The object store is the set of keys in the bucket. *)
(***************************************************************************)
EXTENDS Integers, Sequences, FiniteSets, TLC

VARIABLES
    pc,               \* position of the process in the script
    fs,               \* local filesystem: [files |-> ..., dirs |-> ...]
    bucket,           \* keys of the objects in the bucket
    tags,             \* keys of the objects carrying the ArchiveStatus tag
    ignore_patterns,  \* the ignore list handed to download_files
    todo,             \* objects of the listing download_files has not visited
    archive_entries,  \* member names of /tmp/weekly-archive.tar.gz
    run,              \* number of the current run, the source of its timestamp
    cleanup_inputs,   \* the filesystems cleanup_local_resources was invoked on in this run
    cleanup_ok,       \* the last invocation returned normally
    exit_status,      \* process exit status of the run
    started,          \* stages started in this run, in order
    failed,           \* the stage that raised in this run, or "none"
    sizes,            \* arguments of calculate_size_savings
    result            \* outcome of calculate_size_savings

vars == <<pc, fs, bucket, tags, ignore_patterns, todo, archive_entries, run,
          cleanup_inputs, cleanup_ok, exit_status, started, failed, sizes, result>>

\* invocations of cleanup_local_resources in this run
cleanup_calls == Len(cleanup_inputs)

(***************************************************************************)
(* Bounds.                                                                  *)
(***************************************************************************)
MaxKeyLen == 2      \* chunks in an object key found in the bucket
MaxObjects == 2     \* objects in the bucket before the first run
MaxRuns == 2        \* successive runs against the same bucket
MaxDepth == 2       \* depth of the tree under the working root (cleanup)
MaxSize == 9        \* byte sizes handed to calculate_size_savings
MaxMirrorKeys == 2  \* objects in the bucket handed to download_files alone
MaxPatterns == 1    \* ignore patterns handed to download_files alone

Sep == "/"
Alphabet == {Sep, "a", ".tar.gz"}
Names == {"a", "d"}

(***************************************************************************)
(* Strings and paths.                                                       *)
(***************************************************************************)
StringsUpTo(n) == UNION {[1..k -> Alphabet] : k \in 0..n}

\* str.endswith
endswith(s, p) ==
    /\ Len(p) <= Len(s)
    /\ SubSeq(s, Len(s) - Len(p) + 1, Len(s)) = p

LastSep(p) ==
    IF \E i \in 1..Len(p) : p[i] = Sep
    THEN CHOOSE i \in 1..Len(p) : p[i] = Sep /\ \A j \in (i+1)..Len(p) : p[j] # Sep
    ELSE 0

RECURSIVE rstrip_sep(_)
rstrip_sep(p) ==
    IF p # <<>> /\ p[Len(p)] = Sep THEN rstrip_sep(SubSeq(p, 1, Len(p) - 1)) ELSE p

\* posixpath.join of two parts: an absolute second part discards the first
os_path_join(a, b) ==
    IF b # <<>> /\ b[1] = Sep THEN b
    ELSE IF a = <<>> \/ a[Len(a)] = Sep THEN a \o b
    ELSE a \o <<Sep>> \o b

\* posixpath.dirname: the head up to the last separator, trailing separators
\* stripped unless the head is separators only
os_path_dirname(p) ==
    LET head == SubSeq(p, 1, LastSep(p))
    IN IF rstrip_sep(head) = <<>> THEN head ELSE rstrip_sep(head)

\* posixpath.basename: what follows the last separator
os_path_basename(p) == SubSeq(p, LastSep(p) + 1, Len(p))

\* Path resolution: the component names of an absolute path, empty components
\* (repeated or trailing separators) dropped, the chunks of a component joined.
RECURSIVE Components(_)
Components(p) ==
    IF p = <<>> THEN <<>>
    ELSE LET init == Components(SubSeq(p, 1, Len(p) - 1))
             last == p[Len(p)]
         IN IF last = Sep THEN init
            ELSE IF Len(p) > 1 /\ p[Len(p) - 1] # Sep
                 THEN [init EXCEPT ![Len(init)] = @ \o last]
                 ELSE Append(init, last)

TrailingSep(p) == p # <<>> /\ p[Len(p)] = Sep

Below(d, p) == Len(d) < Len(p) /\ SubSeq(p, 1, Len(d)) = d
Children(paths, d) == {p \in paths : Len(p) = Len(d) + 1 /\ Below(d, p)}
Ancestors(c) == {SubSeq(c, 1, k) : k \in 1..(Len(c) - 1)}

(***************************************************************************)
(* Filesystem calls.  A call works on a record [files, dirs, err] and is    *)
(* skipped once err is set: the exception has left the function.            *)
(***************************************************************************)
Ok(f) == [files |-> f.files, dirs |-> f.dirs, err |-> FALSE]
Plain(st) == [files |-> st.files, dirs |-> st.dirs]

os_path_isdir(st, path) == Components(path) \in st.dirs \/ Components(path) = <<>>
os_path_isfile(st, path) == ~TrailingSep(path) /\ Components(path) \in st.files

os_remove(st, c) ==
    IF st.err THEN st
    ELSE IF c \in st.files THEN [st EXCEPT !.files = @ \ {c}]
    ELSE [st EXCEPT !.err = TRUE]

\* rmdir raises on a directory that still has entries
os_rmdir(st, c) ==
    IF st.err THEN st
    ELSE IF c \notin st.dirs \/ \E p \in st.files \cup st.dirs : Below(c, p)
         THEN [st EXCEPT !.err = TRUE]
    ELSE [st EXCEPT !.dirs = @ \ {c}]

\* os.makedirs(path, exist_ok=True): raises when a component is a file
os_makedirs(st, path) ==
    LET c == Components(path)
        chain == Ancestors(c) \cup (IF c = <<>> THEN {} ELSE {c})
    IN IF st.err THEN st
       ELSE IF chain \cap st.files # {} THEN [st EXCEPT !.err = TRUE]
       ELSE [st EXCEPT !.dirs = @ \cup chain]

(***************************************************************************)
(* cleanup_local_resources                                                  *)
(***************************************************************************)
local_dir == <<Sep, "tmp", Sep, "s3_files", Sep>>
output_filename == <<Sep, "tmp", Sep, "weekly-archive">>
tar_path == output_filename \o <<".tar">>
gz_path == output_filename \o <<".tar.gz">>
log_filename == <<Sep, "tmp", Sep, "s3_compression_log.txt">>

\* the list without the archive
temp_paths_no_archive == <<local_dir, log_filename>>

temp_paths == <<local_dir, gz_path, log_filename>>

RECURSIVE RemoveEach(_, _)
RemoveEach(st, cs) ==
    IF cs = {} THEN st
    ELSE LET c == CHOOSE x \in cs : TRUE
         IN RemoveEach(os_remove(st, c), cs \ {c})

RECURSIVE RmdirEach(_, _)
RmdirEach(st, cs) ==
    IF cs = {} THEN st
    ELSE LET c == CHOOSE x \in cs : TRUE
         IN RmdirEach(os_rmdir(st, c), cs \ {c})

RECURSIVE os_walk_remove_topdown(_, _)
RECURSIVE WalkEachTopdown(_, _)
WalkEachTopdown(st, cs) ==
    IF cs = {} THEN st
    ELSE LET c == CHOOSE x \in cs : TRUE
         IN WalkEachTopdown(os_walk_remove_topdown(st, c), cs \ {c})

\* the loop of lines 68-72 under os.walk(path) with its default topdown=True
os_walk_remove_topdown(st, top) ==
    LET subdirs == Children(st.dirs, top)
        nondirs == Children(st.files, top)
    IN WalkEachTopdown(RmdirEach(RemoveEach(st, nondirs), subdirs), subdirs)

RECURSIVE os_walk_remove(_, _)
RECURSIVE WalkEach(_, _)
WalkEach(st, cs) ==
    IF cs = {} THEN st
    ELSE LET c == CHOOSE x \in cs : TRUE
         IN WalkEach(os_walk_remove(st, c), cs \ {c})

\* for root, dirs, files in os.walk(path, topdown=False): the entries of top
\* are listed, every subdirectory is walked, then top's files are removed and
\* its (by then empty) subdirectories are rmdir'ed
os_walk_remove(st, top) ==
    LET subdirs == Children(st.dirs, top)
        nondirs == Children(st.files, top)
    IN RmdirEach(RemoveEach(WalkEach(st, subdirs), nondirs), subdirs)

\* One pass of the for loop over temp_paths[i..].  fault = i > 0: the removal
\* of temp_paths[i] raises OSError (an I/O or permission error).
RECURSIVE cleanup_from(_, _, _)
cleanup_from(st, i, fault) ==
    IF i > Len(temp_paths) \/ st.err THEN st
    ELSE LET path == temp_paths[i]
             c == Components(path)
             isdir == os_path_isdir(st, path)
             isfile == os_path_isfile(st, path)
             st1 == IF (isdir \/ isfile) /\ fault = i THEN [st EXCEPT !.err = TRUE]
                    ELSE IF isdir THEN os_rmdir(os_walk_remove(st, c), c)
                    ELSE IF isfile THEN os_remove(st, c)
                    ELSE st
         IN cleanup_from(st1, i + 1, fault)

\* The logging.info that ends the function writes to the stream FileHandler
\* opened at import: it does not create the log file anew.
cleanup_local_resources(f, fault) == cleanup_from(Ok(f), 1, fault)

NoFault == 0
Faults == 0..Len(temp_paths)

(***************************************************************************)
(* cleanup_local_resources on its own: two invocations in a row from every  *)
(* local state in which each scratch path is present or absent.             *)
(***************************************************************************)
EmptyTree == [files |-> {}, dirs |-> {}]
Merge(t, u) == [files |-> t.files \cup u.files, dirs |-> t.dirs \cup u.dirs]

\* the trees of regular files and directories below directory p, d levels deep
RECURSIVE Trees(_, _)
RECURSIVE Forests(_, _, _)
Forests(p, d, names) ==
    IF names = {} THEN {EmptyTree}
    ELSE LET n == CHOOSE x \in names : TRUE
             c == Append(p, n)
             node == {EmptyTree}
                     \cup {[files |-> {c}, dirs |-> {}]}
                     \cup {Merge([files |-> {}, dirs |-> {c}], t) : t \in Trees(c, d - 1)}
         IN {Merge(t, u) : t \in node, u \in Forests(p, d, names \ {n})}
Trees(p, d) == IF d = 0 THEN {EmptyTree} ELSE Forests(p, d, Names)

TmpDir == [files |-> {}, dirs |-> {<<"tmp">>}]

LocalStates ==
    LET root == Components(local_dir)
        roots == {EmptyTree}
                 \cup {Merge([files |-> {}, dirs |-> {root}], t) : t \in Trees(root, MaxDepth)}
        gzs == {EmptyTree, [files |-> {Components(gz_path)}, dirs |-> {}]}
        logs == {EmptyTree, [files |-> {Components(log_filename)}, dirs |-> {}]}
    IN {Merge(TmpDir, Merge(r, Merge(g, l))) : r \in roots, g \in gzs, l \in logs}

Idle ==
    /\ bucket = {} /\ tags = {} /\ ignore_patterns = {} /\ todo = {}
    /\ archive_entries = {} /\ run = 1 /\ exit_status = 0
    /\ started = <<>> /\ failed = "none"
    /\ sizes = <<0, 0>> /\ result = [kind |-> "none"]

InitCleanup ==
    /\ pc = "finalizer"
    /\ fs \in LocalStates
    /\ cleanup_inputs = <<>>
    /\ cleanup_ok = TRUE
    /\ Idle

InvokeCleanup ==
    /\ pc = "finalizer"
    /\ Len(cleanup_inputs) < 2
    /\ LET st == cleanup_local_resources(fs, NoFault)
       IN /\ fs' = Plain(st)
          /\ cleanup_ok' = (cleanup_ok /\ ~st.err)
    /\ cleanup_inputs' = Append(cleanup_inputs, fs)
    /\ UNCHANGED <<pc, bucket, tags, ignore_patterns, todo, archive_entries, run,
                   exit_status, started, failed, sizes, result>>

NextCleanup == InvokeCleanup
SpecCleanup == InitCleanup /\ [][NextCleanup]_vars

ScratchAbsent(f) ==
    \A path \in {local_dir, gz_path, log_filename} :
        /\ Components(path) \notin f.files \cup f.dirs
        /\ \A p \in f.files \cup f.dirs : ~Below(Components(path), p)

\* C8: cleanup_local_resources is idempotent.  From every local state in which
\* each of the three scratch paths is present or absent (the working root
\* empty or a nested tree), an invocation raises nothing and leaves all three
\* paths absent, and an invocation on the cleaned state raises nothing and
\* changes nothing.
C8_CleanupIdempotent ==
    pc = "finalizer" =>
        /\ cleanup_calls >= 1 => cleanup_ok /\ ScratchAbsent(fs)
        /\ cleanup_calls >= 2 => fs = cleanup_inputs[2]

C8_Witness ==
    /\ pc = "finalizer"
    /\ cleanup_calls = 2
    /\ cleanup_ok
    /\ \E p \in cleanup_inputs[1].files : Len(p) = Len(Components(local_dir)) + MaxDepth
    /\ Components(gz_path) \in cleanup_inputs[1].files
    /\ Components(log_filename) \in cleanup_inputs[1].files
    /\ fs = cleanup_inputs[2]
    /\ ScratchAbsent(fs)

(***************************************************************************)
(* The run: module import, main() and the __main__ guard.                   *)
(***************************************************************************)
RECURSIVE SubsetsUpTo(_, _)
SubsetsUpTo(S, n) ==
    IF n = 0 THEN {{}}
    ELSE LET smaller == SubsetsUpTo(S, n - 1)
         IN smaller \cup {T \cup {x} : T \in smaller, x \in S}

Keys == StringsUpTo(MaxKeyLen) \ {<<>>}

\* what the bucket may hold before the first run: a plain key, a key in a
\* folder, a folder placeholder, a key with a leading separator, an archive
BucketKeys ==
    {<<"a">>, <<"a", Sep, "a">>, <<"a", Sep>>, <<Sep, "a">>, <<"a", ".tar.gz">>}

\* time.strftime('%Y-%m-%d-%H-%M-%S') of run r: one chunk, distinct per run
timestamp(r) == "T" \o ToString(r)
s3_log_directory == <<"archival-logs">>
archive_name(r) == <<"weekly-archive-", timestamp(r), ".tar.gz">>
s3_log_path(r) == s3_log_directory \o <<Sep, "python-log-", timestamp(r), ".txt">>
main_ignore_patterns == {<<".tar.gz">>, s3_log_directory \o <<Sep>>}

Raise(stage) ==
    /\ pc' = "except"
    /\ failed' = stage

Init ==
    /\ pc = "import"
    /\ fs = TmpDir
    /\ bucket \in SubsetsUpTo(BucketKeys, MaxObjects)
    /\ tags = {}
    /\ ignore_patterns = {}
    /\ todo = {}
    /\ archive_entries = {}
    /\ run = 1
    /\ cleanup_inputs = <<>>
    /\ cleanup_ok = TRUE
    /\ exit_status = 0
    /\ started = <<>>
    /\ failed = "none"
    /\ sizes = <<0, 0>>
    /\ result = [kind |-> "none"]

\* logging.basicConfig: FileHandler opens, and so creates, the log file
Import ==
    /\ pc = "import"
    /\ fs' = [fs EXCEPT !.files = @ \cup {Components(log_filename)}]
    /\ pc' = "configure_aws"
    /\ UNCHANGED <<bucket, tags, ignore_patterns, todo, archive_entries, run,
                   cleanup_inputs, cleanup_ok, exit_status, started, failed,
                   sizes, result>>

\* main() up to the call of download_files: configure_aws returns the resource
\* or logs and re-raises; the ignore list is built
configure_aws ==
    /\ pc = "configure_aws"
    /\ \/ /\ pc' = "download_files"
          /\ ignore_patterns' = main_ignore_patterns
          /\ UNCHANGED failed
       \/ Raise("configure_aws") /\ UNCHANGED ignore_patterns
    /\ UNCHANGED <<fs, bucket, tags, todo, archive_entries, run,
                   cleanup_inputs, cleanup_ok, exit_status, started, sizes, result>>

\* download_files up to its loop: the working root is made, the listing starts
download_files ==
    /\ pc = "download_files"
    /\ started' = Append(started, "Mirroring")
    /\ LET st == os_makedirs(Ok(fs), local_dir)
       IN /\ fs' = Plain(st)
          /\ IF st.err
             THEN Raise("download_files") /\ UNCHANGED todo
             ELSE pc' = "download_loop" /\ todo' = bucket /\ UNCHANGED failed
    /\ UNCHANGED <<bucket, tags, ignore_patterns, archive_entries, run,
                   cleanup_inputs, cleanup_ok, exit_status, sizes, result>>

ignored(key, patterns) == \E pattern \in patterns : endswith(key, pattern)

\* bucket.download_file(key, path): the target must name a file, not a directory
download_file(st, path) ==
    LET c == Components(path)
    IN IF st.err THEN st
       ELSE IF TrailingSep(path) \/ c = <<>> \/ c \in st.dirs
               \/ (c # <<>> /\ Len(c) > 1 /\ SubSeq(c, 1, Len(c) - 1) \notin st.dirs)
            THEN [st EXCEPT !.err = TRUE]
       ELSE [st EXCEPT !.files = @ \cup {c}]

local_file_path(key) == os_path_join(local_dir, key)

\* one iteration of the loop of download_files, for one object of the listing
download_loop ==
    /\ pc = "download_loop"
    /\ \E key \in todo :
         IF ignored(key, ignore_patterns)
         THEN /\ todo' = todo \ {key}
              /\ UNCHANGED <<pc, fs, failed>>
         ELSE LET made == os_makedirs(Ok(fs), os_path_dirname(local_file_path(key)))
                  got == download_file(made, local_file_path(key))
              IN \/ /\ fs' = Plain(got)
                    /\ IF got.err
                       THEN Raise("download_files") /\ UNCHANGED todo
                       ELSE todo' = todo \ {key} /\ UNCHANGED <<pc, failed>>
                 \/ /\ ~made.err          \* the transfer itself fails
                    /\ fs' = Plain(made)
                    /\ Raise("download_files")
                    /\ UNCHANGED todo
    /\ UNCHANGED <<bucket, tags, ignore_patterns, archive_entries, run,
                   cleanup_inputs, cleanup_ok, exit_status, started, sizes, result>>

\* the listing is exhausted: download_files returns local_dir
download_return ==
    /\ pc = "download_loop"
    /\ todo = {}
    /\ pc' = "create_tar"
    /\ UNCHANGED <<fs, bucket, tags, ignore_patterns, todo, archive_entries, run,
                   cleanup_inputs, cleanup_ok, exit_status, started, failed,
                   sizes, result>>

\* create_tar_gz_archive, the first with block: the .tar is opened for writing
\* (created) and the tree is added to it
create_tar ==
    /\ pc = "create_tar"
    /\ started' = Append(started, "Archiving")
    /\ IF Components(tar_path) \in fs.dirs
       THEN Raise("create_tar_gz_archive") /\ UNCHANGED fs
       ELSE /\ fs' = [fs EXCEPT !.files = @ \cup {Components(tar_path)}]
            /\ \/ pc' = "create_gz" /\ UNCHANGED failed
               \/ Raise("create_tar_gz_archive")
    /\ UNCHANGED <<bucket, tags, ignore_patterns, todo, archive_entries, run,
                   cleanup_inputs, cleanup_ok, exit_status, sizes, result>>

\* member names of tar.add(source_dir, arcname=os.path.basename(source_dir))
tar_members(f, source_dir) ==
    LET root == Components(source_dir)
        arcname == Components(os_path_basename(source_dir))
    IN {arcname \o SubSeq(p, Len(root) + 1, Len(p)) :
            p \in {q \in f.files \cup f.dirs : Below(root, q)}}

\* create_tar_gz_archive, the second with block and the lines after it
create_gz ==
    /\ pc = "create_gz"
    /\ IF Components(gz_path) \in fs.dirs
       THEN Raise("create_tar_gz_archive") /\ UNCHANGED <<fs, archive_entries>>
       ELSE \/ /\ fs' = [fs EXCEPT !.files = (@ \cup {Components(gz_path)})
                                               \ {Components(tar_path)}]
               /\ archive_entries' = tar_members(fs, local_dir)
               /\ pc' = "upload_archive"
               /\ UNCHANGED failed
            \/ /\ fs' = [fs EXCEPT !.files = @ \cup {Components(gz_path)}]
               /\ archive_entries' = {}
               /\ Raise("create_tar_gz_archive")
    /\ UNCHANGED <<bucket, tags, ignore_patterns, todo, run, cleanup_inputs,
                   cleanup_ok, exit_status, started, sizes, result>>

upload_archive_to_s3 ==
    /\ pc = "upload_archive"
    /\ started' = Append(started, "Uploading")
    /\ \/ /\ Components(gz_path) \in fs.files
          /\ bucket' = bucket \cup {archive_name(run)}
          /\ pc' = "tag_archive"
          /\ UNCHANGED failed
       \/ Raise("upload_archive_to_s3") /\ UNCHANGED bucket
    /\ UNCHANGED <<fs, tags, ignore_patterns, todo, archive_entries, run,
                   cleanup_inputs, cleanup_ok, exit_status, sizes, result>>

tag_archive ==
    /\ pc = "tag_archive"
    /\ started' = Append(started, "Tagging")
    /\ \/ /\ archive_name(run) \in bucket
          /\ tags' = tags \cup {archive_name(run)}
          /\ pc' = "upload_log"
          /\ UNCHANGED failed
       \/ Raise("tag_archive") /\ UNCHANGED tags
    /\ UNCHANGED <<fs, bucket, ignore_patterns, todo, archive_entries, run,
                   cleanup_inputs, cleanup_ok, exit_status, sizes, result>>

upload_log_to_s3 ==
    /\ pc = "upload_log"
    /\ started' = Append(started, "LogPublishing")
    /\ \/ /\ Components(log_filename) \in fs.files
          /\ bucket' = bucket \cup {s3_log_path(run)}
          /\ pc' = "cleanup"
          /\ UNCHANGED failed
       \/ Raise("upload_log_to_s3") /\ UNCHANGED bucket
    /\ UNCHANGED <<fs, tags, ignore_patterns, todo, archive_entries, run,
                   cleanup_inputs, cleanup_ok, exit_status, sizes, result>>

\* the last statement of main(): cleanup_local_resources() inside the try
main_cleanup ==
    /\ pc = "cleanup"
    /\ started' = Append(started, "Cleanup")
    /\ cleanup_inputs' = Append(cleanup_inputs, fs)
    /\ \E fault \in Faults :
         LET st == cleanup_local_resources(fs, fault)
         IN /\ fs' = Plain(st)
            /\ cleanup_ok' = ~st.err
            /\ IF st.err
               THEN Raise("cleanup_local_resources") /\ UNCHANGED exit_status
               ELSE pc' = "exit" /\ exit_status' = 0 /\ UNCHANGED failed
    /\ UNCHANGED <<bucket, tags, ignore_patterns, todo, archive_entries, run,
                   sizes, result>>

\* except Exception: the error is logged and cleanup_local_resources() runs;
\* the handler returning ends the script normally, an exception escaping it
\* ends the interpreter with status 1
except_handler ==
    /\ pc = "except"
    /\ started' = Append(started, "Cleanup")
    /\ cleanup_inputs' = Append(cleanup_inputs, fs)
    /\ \E fault \in Faults :
         LET st == cleanup_local_resources(fs, fault)
         IN /\ fs' = Plain(st)
            /\ cleanup_ok' = ~st.err
            /\ exit_status' = IF st.err THEN 1 ELSE 0
    /\ pc' = "exit"
    /\ UNCHANGED <<bucket, tags, ignore_patterns, todo, archive_entries, run,
                   failed, sizes, result>>

\* the next scheduled run: a new process against the same bucket and /tmp
NewRun ==
    /\ pc = "exit"
    /\ run < MaxRuns
    /\ run' = run + 1
    /\ pc' = "import"
    /\ cleanup_inputs' = <<>>
    /\ cleanup_ok' = TRUE
    /\ exit_status' = 0
    /\ started' = <<>>
    /\ failed' = "none"
    /\ todo' = {}
    /\ UNCHANGED <<fs, bucket, tags, ignore_patterns, archive_entries, sizes, result>>

Next ==
    \/ Import
    \/ configure_aws
    \/ download_files
    \/ download_loop
    \/ download_return
    \/ create_tar
    \/ create_gz
    \/ upload_archive_to_s3
    \/ tag_archive
    \/ upload_log_to_s3
    \/ main_cleanup
    \/ except_handler
    \/ NewRun

Spec == Init /\ [][Next]_vars

(***************************************************************************)
(* download_files on its own: every bucket content K and ignore list R,     *)
(* the working root not yet there.                                          *)
(***************************************************************************)
InitMirror ==
    /\ pc = "download_files"
    /\ fs = TmpDir
    /\ bucket \in SubsetsUpTo(Keys, MaxMirrorKeys)
    /\ ignore_patterns \in SubsetsUpTo(StringsUpTo(MaxKeyLen), MaxPatterns)
    /\ tags = {} /\ todo = {} /\ archive_entries = {} /\ run = 1
    /\ cleanup_inputs = <<>> /\ cleanup_ok = TRUE /\ exit_status = 0
    /\ started = <<>> /\ failed = "none"
    /\ sizes = <<0, 0>> /\ result = [kind |-> "none"]

NextMirror ==
    \/ download_files
    \/ download_loop
    \/ download_return

SpecMirror == InitMirror /\ [][NextMirror]_vars

(***************************************************************************)
(* calculate_size_savings on its own.                                       *)
(***************************************************************************)
\* the function with the division guarded by a silent zero
calculate_size_savings_silent(original_size, compressed_size) ==
    LET savings == original_size - compressed_size
    IN IF original_size = 0
       THEN [kind |-> "ok", savings |-> savings, percent |-> [num |-> 0, den |-> 1]]
       ELSE [kind |-> "ok", savings |-> savings,
             percent |-> [num |-> savings * 100, den |-> original_size]]

\* savings / original_size raises ZeroDivisionError on 0; the quotient times 100
\* is kept as the fraction num/den (the rounding of the float is not modelled)
calculate_size_savings(original_size, compressed_size) ==
    LET savings == original_size - compressed_size
    IN IF original_size = 0
       THEN [kind |-> "ZeroDivisionError"]
       ELSE [kind |-> "ok", savings |-> savings,
             percent |-> [num |-> savings * 100, den |-> original_size]]

Sizes == 0..MaxSize \cup {250, 1000}

InitSavings ==
    /\ pc = "savings"
    /\ sizes \in Sizes \X Sizes
    /\ result = [kind |-> "none"]
    /\ fs = TmpDir /\ bucket = {} /\ tags = {} /\ ignore_patterns = {}
    /\ todo = {} /\ archive_entries = {} /\ run = 1
    /\ cleanup_inputs = <<>> /\ cleanup_ok = TRUE /\ exit_status = 0
    /\ started = <<>> /\ failed = "none"

CallSavings ==
    /\ pc = "savings"
    /\ result' = calculate_size_savings(sizes[1], sizes[2])
    /\ pc' = "savings_returned"
    /\ UNCHANGED <<fs, bucket, tags, ignore_patterns, todo, archive_entries, run,
                   cleanup_inputs, cleanup_ok, exit_status, started, failed, sizes>>

NextSavings == CallSavings
SpecSavings == InitSavings /\ [][NextSavings]_vars

(***************************************************************************)
(* Properties of the run.                                                   *)
(***************************************************************************)
Present(f, path) ==
    \/ Components(path) \in f.files \cup f.dirs
    \/ \E p \in f.files \cup f.dirs : Below(Components(path), p)

RunEnded == pc = "exit"

\* C1: a run in which every stage succeeds, or in which one of credential
\* acquisition, mirroring, archiving, archive upload, tagging and log upload
\* raises, has invoked cleanup_local_resources by the time it ends; when that
\* invocation met no I/O error of its own, none of /tmp/s3_files/,
\* /tmp/weekly-archive.tar.gz and /tmp/s3_compression_log.txt exists at the
\* end of the run.
C1_CleanupAlwaysRuns ==
    RunEnded =>
        /\ cleanup_calls >= 1
        /\ (cleanup_ok =>
              /\ ~Present(fs, local_dir)
              /\ ~Present(fs, gz_path)
              /\ ~Present(fs, log_filename))

C1_Witness ==
    /\ RunEnded
    /\ failed = "create_tar_gz_archive"
    /\ cleanup_calls = 1
    /\ cleanup_ok
    /\ ~Present(fs, local_dir)
    /\ ~Present(fs, gz_path)
    /\ ~Present(fs, log_filename)

\* C2: in every run cleanup_local_resources is invoked exactly once, also when
\* the invocation at the end of main() raises.
C2_CleanupExactlyOnce == RunEnded => cleanup_calls = 1

\* C3: a run in which a stage raised ends with a non-zero exit status.
C3_FailureReported == RunEnded /\ failed # "none" => exit_status # 0

\* C4: in every run, one in which a stage before log publishing raised
\* included, the log object of the run is in the bucket when the run ends.
C4_LogAlwaysPublished == RunEnded => s3_log_path(run) \in bucket

\* C5: when create_tar_gz_archive has raised, the intermediate .tar it created
\* no longer exists, neither when the exception reaches the handler nor after
\* the run has ended.
C5_TarRemovedOnFailure ==
    pc \in {"except", "exit"} /\ failed = "create_tar_gz_archive"
        => ~Present(fs, tar_path)

\* C6: after download_files has returned, the regular files under the working
\* root are exactly those at root + key for the keys of the bucket that end
\* with no ignore pattern.
C6_MirrorExact ==
    pc = "create_tar" /\ failed = "none" =>
        {p \in fs.files : Below(Components(local_dir), p)}
            = {Components(local_dir \o key) :
                   key \in {k \in bucket : ~ignored(k, ignore_patterns)}}

\* C7: no log object that an earlier run uploaded under archival-logs/ is ever
\* in the working root, or in the archive, of a later run.
C7_LogsNotMirrored ==
    \A r \in 1..(run - 1) :
        /\ Components(local_dir \o s3_log_path(r)) \notin fs.files
        /\ Components(s3_log_path(r)) \notin archive_entries

Stages == <<"Mirroring", "Archiving", "Uploading", "Tagging", "LogPublishing", "Cleanup">>

\* C10: the stages of a run start in the order Mirroring, Archiving, Uploading,
\* Tagging, LogPublishing, Cleanup, each at most once; after a stage has raised
\* only Cleanup starts, and no stage is started again.
C10_StagesInOrder ==
    \E n \in 0..(Len(Stages) - 1) :
        /\ SubSeq(started, 1, n) = SubSeq(Stages, 1, n)
        /\ \/ Len(started) = n
           \/ Len(started) = n + 1 /\ started[n + 1] \in {Stages[n + 1], "Cleanup"}

====
